---- MODULE Spec2Model ----
(***************************************************************************)
(* charges_calc.py: load a JSON mapping of rental records, validate each   *)
(* record (check_value_set), add the derived fields to the valid ones      *)
(* (calculate_additional_fields) and write the cleaned mapping             *)
(* (save_to_json).                                                         *)
(*                                                                         *)
(* A dict is a record of optional entries [present, v]; looking up an      *)
(* entry that is not present raises KeyError.  A date string is kept with  *)
(* its text and its tokens (the two-digit groups strptime reads).  The     *)
(* parsed mapping is revealed to the model one record at a time, in        *)
(* iteration order, when the loop of calculate_additional_fields reads it. *)
(***************************************************************************)
EXTENDS Integers, Sequences, FiniteSets, TLC

\* Largest number of records in the input mapping.
MaxRecords == 2

\* The keys of the input mapping, in its iteration order. Keys are opaque
\* and unique, so one order of distinct names stands for every order; the
\* names are not in sorted order.
InputKeys == <<"B", "A", "D", "C">>

---------------------------------------------------------------------------
\* datetime: the proleptic Gregorian calendar, as datetime.date computes it.

IsLeap(y) == (y % 4 = 0) /\ ((y % 100 # 0) \/ (y % 400 = 0))

DaysInMonth(y, m) ==
    IF m = 2 THEN (IF IsLeap(y) THEN 29 ELSE 28)
    ELSE IF m \in {4, 6, 9, 11} THEN 30 ELSE 31

DaysBeforeYear(y) ==
    ((y - 1) * 365) + ((y - 1) \div 4) - ((y - 1) \div 100) + ((y - 1) \div 400)

RECURSIVE DaysBeforeMonth(_, _)
DaysBeforeMonth(y, m) ==
    IF m = 1 THEN 0 ELSE DaysBeforeMonth(y, m - 1) + DaysInMonth(y, m - 1)

\* date.toordinal(): day 1 is 0001-01-01.
ToOrdinal(y, m, d) == DaysBeforeYear(y) + DaysBeforeMonth(y, m) + d

\* A string: its text, whether it has the shape <digits>/<digits>/<2 digits>
\* that '%m/%d/%y' matches, and the three numbers read from it.
Str(text, shaped, a, b, c) ==
    [text |-> text, shaped |-> shaped, a |-> a, b |-> b, c |-> c]

EmptyStr == Str("", FALSE, 0, 0, 0)

\* The date strings the input records draw from: the empty string, a text
\* of another format, a text of the format that names no day, and two dates
\* three days apart on either side of the pivot of '%y'.
DateStrings ==
    { EmptyStr,
      Str("2020-01-01", FALSE, 2020, 1, 1),
      Str("02/30/20", TRUE, 2, 30, 20),
      Str("12/29/99", TRUE, 12, 29, 99),
      Str("01/01/00", TRUE, 1, 1, 0) }

\* '%y': 00..68 are 2000..2068, 69..99 are 1969..1999.
Year2(yy) == IF yy <= 68 THEN 2000 + yy ELSE 1900 + yy

\* datetime.datetime.strptime(s, '%m/%d/%y'): the date as its ordinal, or
\* ValueError when the text does not match the format or names no day.
strptime(s) ==
    IF ~s.shaped \/ s.a \notin 1..12 \/ s.b \notin 1..31
    THEN [exc |-> "ValueError", msg |-> "time data does not match format", ord |-> 0]
    ELSE IF s.b > DaysInMonth(Year2(s.c), s.a)
    THEN [exc |-> "ValueError", msg |-> "day is out of range for month", ord |-> 0]
    ELSE [exc |-> "none", msg |-> "", ord |-> ToOrdinal(Year2(s.c), s.a, s.b)]

---------------------------------------------------------------------------
\* Rental records.

Present(v) == [present |-> TRUE, v |-> v]
Missing(default) == [present |-> FALSE, v |-> default]

\* Values an input record's numeric entries draw from.
Amounts == {-1, 0, 2}

Fraction(n, d) == [num |-> n, den |-> d]

\* The records of the input mapping: each of the five base entries is
\* missing or holds one of its sample values; no derived entry is present.
Records ==
    [ price_per_day    : {Missing(0)} \cup {Present(x) : x \in Amounts},
      units_rented     : {Missing(0)} \cup {Present(x) : x \in Amounts},
      product_code     : {Missing(""), Present(""), Present("X")},
      rental_start     : {Missing(EmptyStr)} \cup {Present(s) : s \in DateStrings},
      rental_end       : {Missing(EmptyStr)} \cup {Present(s) : s \in DateStrings},
      total_days       : {Missing(0)},
      total_price      : {Missing(0)},
      sqrt_total_price : {Missing(0)},
      unit_cost        : {Missing(Fraction(0, 1))} ]

EmptyRecord ==
    [ price_per_day |-> Missing(0), units_rented |-> Missing(0),
      product_code |-> Missing(""), rental_start |-> Missing(EmptyStr),
      rental_end |-> Missing(EmptyStr), total_days |-> Missing(0),
      total_price |-> Missing(0), sqrt_total_price |-> Missing(0),
      unit_cost |-> Missing(Fraction(0, 1)) ]

---------------------------------------------------------------------------
\* Logging: the log is the set of (level, message) pairs emitted so far.

Debug(msg)   == <<"debug", msg>>
Warning(msg) == <<"warning", msg>>
Error(msg)   == <<"error", msg>>

---------------------------------------------------------------------------
\* check_value_set

Passed == [exc |-> "none", msg |-> "", log |-> {}]
Logged(entry) == [exc |-> "none", msg |-> "", log |-> {entry}]
Raised(exc, msg) == [exc |-> exc, msg |-> msg, log |-> {}]

\* assert value[field], msg   (a number is truthy when it is not 0)
AssertNumber(value, field, msg) ==
    IF ~value[field].present THEN Raised("KeyError", field)
    ELSE IF value[field].v = 0 THEN Raised("AssertionError", msg)
    ELSE Passed

\* assert value[field] >= 0, msg
AssertNonNegative(value, field, msg) ==
    IF ~value[field].present THEN Raised("KeyError", field)
    ELSE IF ~(value[field].v >= 0) THEN Raised("AssertionError", msg)
    ELSE Passed

\* assert value[field], msg   (a string is truthy when it is not empty)
AssertText(value, field, text, msg) ==
    IF ~value[field].present THEN Raised("KeyError", field)
    ELSE IF text = "" THEN Raised("AssertionError", msg)
    ELSE Passed

\* x = datetime.datetime.strptime(value[field], '%m/%d/%y')
ParseDate(value, field) ==
    IF ~value[field].present THEN Raised("KeyError", field)
    ELSE IF strptime(value[field].v).exc # "none"
         THEN Raised("ValueError", strptime(value[field].v).msg)
    ELSE Passed

\* The statements of the try block, by source line.
Statement(value, line) ==
    CASE line = 125 -> Logged(Debug("Checking price_per_day value"))
      [] line = 126 -> AssertNumber(value, "price_per_day", "missing price_per_day")
      [] line = 127 -> AssertNonNegative(value, "price_per_day", "invalid price_per_day")
      [] line = 128 -> Logged(Debug("Checking product_code value"))
      [] line = 129 -> AssertText(value, "product_code", value.product_code.v,
                                  "missing product code")
      [] line = 130 -> Logged(Debug("Making sure rental date values are present"))
      [] line = 131 -> AssertText(value, "rental_start", value.rental_start.v.text,
                                  "missing rental_start value")
      [] line = 132 -> AssertText(value, "rental_end", value.rental_end.v.text,
                                  "missing rental_end value")
      [] line = 133 -> Logged(Debug("Checking rental date values make sense"))
      [] line = 134 -> ParseDate(value, "rental_start")
      [] line = 135 -> ParseDate(value, "rental_end")
      [] line = 136 -> IF strptime(value.rental_start.v).ord
                            <= strptime(value.rental_end.v).ord
                       THEN Passed
                       ELSE Raised("AssertionError", "invalid rental dates")
      [] line = 137 -> Logged(Debug("Checking units_rented value"))
      [] line = 138 -> AssertNumber(value, "units_rented", "missing units_rented value")
      [] line = 139 -> AssertNonNegative(value, "units_rented",
                                         "invalid units_rented value")

\* Variant: the range check of units_rented (line 139) is left out.
TryBlock_NoUnitsRange ==
    <<125, 126, 127, 128, 129, 130, 131, 132, 133, 134, 135, 136, 137, 138>>

\* Variant: the truthiness check of units_rented (line 138) is left out.
TryBlock_NoUnitsTruthy ==
    <<125, 126, 127, 128, 129, 130, 131, 132, 133, 134, 135, 136, 137, 139>>

\* The try block runs its statements in source order.
TryBlock == <<125, 126, 127, 128, 129, 130, 131, 132, 133, 134, 135, 136, 137,
              138, 139>>

\* Run the statements from the i-th on; the first one that raises ends the
\* block: AssertionError is caught (a warning, return False), anything else
\* leaves check_value_set as an exception.
RECURSIVE RunFrom(_, _, _, _)
RunFrom(value, block, i, log) ==
    IF i > Len(block)
    THEN [ret |-> "True", exc |-> "none", msg |-> "", log |-> log]
    ELSE LET r == Statement(value, block[i]) IN
         IF r.exc = "none" THEN RunFrom(value, block, i + 1, log \cup r.log)
         ELSE IF r.exc = "AssertionError"
         THEN [ret |-> "False", exc |-> "none", msg |-> r.msg,
               log |-> log \cup {Warning(r.msg)}]
         ELSE [ret |-> "raise", exc |-> r.exc, msg |-> r.msg, log |-> log]

check_value_set(value) == RunFrom(value, TryBlock, 1, {})

---------------------------------------------------------------------------
\* calculate_additional_fields

\* math.sqrt on a non-negative integer, kept to its integer part.
RECURSIVE FloorSqrtIn(_, _, _)
FloorSqrtIn(x, lo, hi) ==
    IF lo = hi THEN lo
    ELSE LET mid == (lo + hi + 1) \div 2 IN
         IF mid * mid <= x THEN FloorSqrtIn(x, mid, hi)
         ELSE FloorSqrtIn(x, lo, mid - 1)

FloorSqrt(x) == FloorSqrtIn(x, 0, IF x < 46340 THEN x ELSE 46340)

\* Variant: both end days are counted.
TotalDays_Inclusive(start_ord, end_ord) == end_ord - start_ord + 1

\* (rental_end - rental_start).days, on the ordinals of the two dates.
TotalDays(start_ord, end_ord) == end_ord - start_ord

\* Lines 92-105: the derived entries, written into the record in place.
\* An exception leaves the entries assigned before it.
Enrich(value) ==
    LET rental_start == strptime(value.rental_start.v)
        rental_end   == strptime(value.rental_end.v)
        total_days   == TotalDays(rental_start.ord, rental_end.ord)
        total_price  == total_days * value.price_per_day.v
        v1 == [value EXCEPT !.total_days = Present(total_days)]
        v2 == [v1 EXCEPT !.total_price = Present(total_price)]
        v3 == [v2 EXCEPT !.sqrt_total_price = Present(FloorSqrt(total_price))]
        v4 == [v3 EXCEPT !.unit_cost =
                  Present(Fraction(total_price, value.units_rented.v))]
    IN  IF rental_start.exc # "none"
        THEN [exc |-> "ValueError", at |-> "strptime", msg |-> rental_start.msg,
              value |-> value]
        ELSE IF rental_end.exc # "none"
        THEN [exc |-> "ValueError", at |-> "strptime", msg |-> rental_end.msg,
              value |-> value]
        ELSE IF total_price < 0
        THEN [exc |-> "ValueError", at |-> "math.sqrt", msg |-> "math domain error",
              value |-> v2]
        ELSE IF value.units_rented.v = 0
        THEN [exc |-> "ZeroDivisionError", at |-> "unit_cost",
              msg |-> "division by zero", value |-> v3]
        ELSE [exc |-> "none", at |-> "", msg |-> "", value |-> v4]

\* Variant: a new key goes to the front of the mapping.
Update_Prepend(cleaned, key, value) ==
    <<[key |-> key, value |-> value]>> \o cleaned

\* cleaned_data.update({key: value}): a dict keeps insertion order; a key
\* already there keeps its place and takes the new value.
Update(cleaned, key, value) ==
    IF \E i \in 1..Len(cleaned) : cleaned[i].key = key
    THEN [i \in 1..Len(cleaned) |->
             IF cleaned[i].key = key THEN [key |-> key, value |-> value]
             ELSE cleaned[i]]
    ELSE Append(cleaned, [key |-> key, value |-> value])

\* Variant: a ValueError skips the record and the loop goes on.
FlowOn_Swallow(exception) == IF exception = "ValueError" THEN "next" ELSE "crash"

\* An exception raised in the loop's try block: "except ValueError" logs it
\* and calls exit(0); any other exception has no handler.
FlowOn(exception) == IF exception = "ValueError" THEN "exit" ELSE "crash"

\* One pass of the for loop (lines 64-114) over (key, value): what becomes
\* of the control flow, the cleaned mapping, the record and the log.
\*   flow "next":  the loop goes on to the next record
\*   flow "exit":  except ValueError: LOGGER.error(...); exit(0)
\*   flow "crash": an exception no handler catches leaves the program
LoopBody(cleaned, key, value) ==
    LET chk == check_value_set(value)
        enr == Enrich(value)
    IN  IF chk.ret = "raise"
        THEN [flow |-> FlowOn(chk.exc),
              exc |-> chk.exc, at |-> "check_value_set", ret |-> chk.ret,
              cleaned |-> cleaned, value |-> value,
              log |-> chk.log \cup
                      (IF FlowOn(chk.exc) = "crash" THEN {} ELSE {Error(chk.msg)})]
        ELSE IF chk.ret = "False"
        THEN [flow |-> "next", exc |-> "none", at |-> "", ret |-> chk.ret,
              cleaned |-> cleaned, value |-> value,
              log |-> chk.log \cup {Debug("Skipping item due to invalid data issues")}]
        ELSE IF enr.exc # "none"
        THEN [flow |-> FlowOn(enr.exc),
              exc |-> enr.exc, at |-> enr.at, ret |-> chk.ret,
              cleaned |-> cleaned, value |-> enr.value,
              log |-> chk.log \cup
                      (IF FlowOn(enr.exc) = "crash" THEN {} ELSE {Error(enr.msg)})]
        ELSE [flow |-> "next", exc |-> "none", at |-> "", ret |-> chk.ret,
              cleaned |-> Update(cleaned, key, enr.value), value |-> enr.value,
              log |-> chk.log \cup
                      {Debug("Added validated item to scrubbed dataset")}]

---------------------------------------------------------------------------
\* save_to_json: the file written, or none when the mapping is empty.

NoFile == [written |-> FALSE, content |-> <<>>]

\* Variant: the file is written whatever the mapping holds.
save_to_json_Always(data) ==
    [file |-> [written |-> TRUE, content |-> data], log |-> {Debug("Saving file")}]

save_to_json(data) ==
    IF data # <<>>
    THEN [file |-> [written |-> TRUE, content |-> data],
          log |-> {Debug("Saving file")}]
    ELSE [file |-> NoFile,
          log |-> {Warning("Data is invalid. Skipping file writing")}]

---------------------------------------------------------------------------
\* The program: __main__ (lines 157-161).

VARIABLES
    pc,            \* where __main__ is: "load", "calculate" (the loop's head),
                   \* "continue" (the end of the loop's body), "save", "done",
                   \* "exited" (exit(0) was called), "crashed" (uncaught exception)
    input_exists,  \* whether the file named by --input exists
    n_records,     \* len(DATA) once the input is loaded
    iterated,      \* the keys the loop has read so far, in iteration order,
                   \* each with what check_value_set did on its record
    key,           \* the loop's key
    value,         \* the loop's record (the dict the loop may have written to)
    checked,       \* what check_value_set did on that record
    cleaned_data,  \* the mapping calculate_additional_fields builds
    exc,           \* the exception that ended the run, and where it was raised
    log,           \* the (level, message) pairs logged so far
    output         \* the file named by --output

vars == <<pc, input_exists, n_records, iterated, key, value, checked,
          cleaned_data, exc, log, output>>

NoException == [exc |-> "none", at |-> ""]

Init ==
    /\ pc = "load"
    /\ input_exists \in BOOLEAN
    /\ n_records = 0
    /\ iterated = <<>>
    /\ key = ""
    /\ value = EmptyRecord
    /\ checked = "none"
    /\ cleaned_data = <<>>
    /\ exc = NoException
    /\ log = {}
    /\ output = NoFile

\* load_rentals_file, input file missing: open() (line 51) raises
\* FileNotFoundError before the try block of line 52 is entered, so the
\* handler of lines 54-56 does not run and nothing is logged.
load_rentals_file_missing ==
    /\ pc = "load"
    /\ ~input_exists
    /\ pc' = "crashed"
    /\ exc' = [exc |-> "FileNotFoundError", at |-> "open"]
    /\ UNCHANGED <<input_exists, n_records, iterated, key, value, checked,
                   cleaned_data, log, output>>

\* load_rentals_file, input file present: json.load returns the mapping.
load_rentals_file ==
    /\ pc = "load"
    /\ input_exists
    /\ \E n \in 0..MaxRecords : n <= Len(InputKeys) /\ n_records' = n
    /\ pc' = "calculate"
    /\ UNCHANGED <<input_exists, iterated, key, value, checked, cleaned_data,
                   exc, log, output>>

\* One iteration of the loop of calculate_additional_fields.
Iterate(k, v) ==
    /\ pc = "calculate"
    /\ Len(iterated) < n_records
    /\ k = InputKeys[Len(iterated) + 1]
    /\ LET r == LoopBody(cleaned_data, k, v) IN
        /\ key' = k
        /\ value' = r.value
        /\ checked' = r.ret
        /\ iterated' = Append(iterated, [key |-> k, checked |-> r.ret])
        /\ cleaned_data' = r.cleaned
        /\ log' = log \cup r.log
        /\ exc' = [exc |-> r.exc, at |-> r.at]
        /\ pc' = CASE r.flow = "next" -> "continue"
                   [] r.flow = "exit" -> "exited"
                   [] r.flow = "crash" -> "crashed"
    /\ UNCHANGED <<input_exists, n_records, output>>

\* Back to the head of the loop. The next iteration rebinds key and value
\* before anything reads them, and after the loop nothing reads them at
\* all: the previous item is dead here and the model drops it.
Continue ==
    /\ pc = "continue"
    /\ pc' = "calculate"
    /\ key' = ""
    /\ value' = EmptyRecord
    /\ checked' = "none"
    /\ UNCHANGED <<input_exists, n_records, iterated, cleaned_data, exc, log,
                   output>>

\* The loop is over: return cleaned_data (line 116).
Return ==
    /\ pc = "calculate"
    /\ Len(iterated) = n_records
    /\ pc' = "save"
    /\ UNCHANGED <<input_exists, n_records, iterated, key, value, checked,
                   cleaned_data, exc, log, output>>

\* save_to_json(ARGS.output, DATA) (line 161).
Save ==
    /\ pc = "save"
    /\ LET r == save_to_json(cleaned_data) IN
        /\ output' = r.file
        /\ log' = log \cup r.log
    /\ pc' = "done"
    /\ UNCHANGED <<input_exists, n_records, iterated, key, value, checked,
                   cleaned_data, exc>>

Next ==
    \/ load_rentals_file_missing
    \/ load_rentals_file
    \/ \E v \in Records : Iterate(InputKeys[Len(iterated) + 1], v)
    \/ Continue
    \/ Return
    \/ Save

Spec == Init /\ [][Next]_vars

---------------------------------------------------------------------------
\* Vocabulary of the properties.  The base entries of `value` are the input
\* record's: the loop only adds the derived entries.

\* The loop has just run its body on (key, value).
JustIterated == key # ""

BaseFields ==
    {"price_per_day", "units_rented", "product_code", "rental_start", "rental_end"}

Absent(field) == ~value[field].present

\* The entry is there and holds a date string that is not empty and that
\* strptime rejects.
Unparseable(field) ==
    /\ value[field].present
    /\ value[field].v.text # ""
    /\ strptime(value[field].v).exc # "none"

\* The entry is there and holds a date strptime accepts.
Parses(field) == value[field].present /\ strptime(value[field].v).exc = "none"

\* The record holds a value that fails one of the five checks made before
\* the dates are parsed.
FailsEarlierCheck ==
    \/ value.price_per_day.present /\ value.price_per_day.v <= 0
    \/ value.product_code.present /\ value.product_code.v = ""
    \/ value.rental_start.present /\ value.rental_start.v.text = ""
    \/ value.rental_end.present /\ value.rental_end.v.text = ""

\* The record passes the five checks made before the dates are parsed.
PassesEarlierChecks ==
    /\ value.price_per_day.present /\ value.price_per_day.v > 0
    /\ value.product_code.present /\ value.product_code.v # ""
    /\ value.rental_start.present /\ value.rental_start.v.text # ""
    /\ value.rental_end.present /\ value.rental_end.v.text # ""

CleanedKeys == [i \in 1..Len(cleaned_data) |-> cleaned_data[i].key]

InCleaned(k) == \E i \in 1..Len(cleaned_data) : cleaned_data[i].key = k

Skipped == checked = "False" /\ pc = "continue" /\ ~InCleaned(key)

LoggedAt(level) == \E e \in log : e[1] = level

---------------------------------------------------------------------------
\* C1: a record in which any of the five base entries is absent makes
\* check_value_set return False; no error is raised, the record is left out
\* of the output and the run continues.
C1_MissingEntrySkipped ==
    (JustIterated /\ \E f \in BaseFields : Absent(f)) => Skipped

\* C2: a record whose date string does not parse, and which reaches the date
\* parse, ends the run: the ValueError leaves check_value_set, the handler
\* calls exit(0), and no output file is written, whatever was accumulated.
ReachesBadDate ==
    /\ JustIterated
    /\ PassesEarlierChecks
    /\ Unparseable("rental_start") \/ Unparseable("rental_end")

C2_BadDateNoOutput ==
    /\ ReachesBadDate =>
          /\ pc = "exited"
          /\ exc = [exc |-> "ValueError", at |-> "check_value_set"]
          /\ ~output.written
    /\ pc \in {"exited", "crashed"} => ~output.written

C2_Witness ==
    ReachesBadDate /\ pc = "exited" /\ cleaned_data # <<>> /\ ~output.written

\* C3: when calculate_additional_fields returns, the keys of the returned
\* mapping are exactly the input keys on whose record check_value_set
\* returned True, in the input's order.
RECURSIVE KeysChecked(_, _)
KeysChecked(items, ret) ==
    IF items = <<>> THEN <<>>
    ELSE (IF Head(items).checked = ret THEN <<Head(items).key>> ELSE <<>>)
         \o KeysChecked(Tail(items), ret)

C3_CleanedKeysAreValidKeys ==
    pc \in {"save", "done"} =>
        /\ Len(iterated) = n_records
        /\ \A i \in 1..Len(iterated) : iterated[i].checked \in {"True", "False"}
        /\ CleanedKeys = KeysChecked(iterated, "True")

C3_Witness ==
    /\ pc = "save"
    /\ Len(iterated) = 2
    /\ iterated[1].checked = "False"
    /\ iterated[2].checked = "True"
    /\ CleanedKeys = <<InputKeys[2]>>

\* C4: every record of the output mapping holds the four derived entries;
\* total_days is the number of calendar days from rental_start to rental_end
\* and is not negative, total_price is total_days * price_per_day and
\* unit_cost is total_price / units_rented.
Date(s) == <<Year2(s.c), s.a, s.b>>

Before(d, e) ==
    \/ d[1] < e[1]
    \/ d[1] = e[1] /\ d[2] < e[2]
    \/ d[1] = e[1] /\ d[2] = e[2] /\ d[3] < e[3]

NextDay(d) ==
    IF d[3] < DaysInMonth(d[1], d[2]) THEN <<d[1], d[2], d[3] + 1>>
    ELSE IF d[2] < 12 THEN <<d[1], d[2] + 1, 1>>
    ELSE <<d[1] + 1, 1, 1>>

\* The days counted one at a time on the calendar, from d up to e.
RECURSIVE DaysFromTo(_, _)
DaysFromTo(d, e) == IF ~Before(d, e) THEN 0 ELSE 1 + DaysFromTo(NextDay(d), e)

DerivedFieldsRight(v) ==
    /\ \A f \in BaseFields \cup {"total_days", "total_price", "sqrt_total_price",
                                "unit_cost"} : v[f].present
    /\ v.total_days.v >= 0
    /\ ~Before(Date(v.rental_end.v), Date(v.rental_start.v))
    /\ v.total_days.v = DaysFromTo(Date(v.rental_start.v), Date(v.rental_end.v))
    /\ v.total_price.v = v.total_days.v * v.price_per_day.v
    /\ v.unit_cost.v.den # 0
    /\ v.unit_cost.v = Fraction(v.total_price.v, v.units_rented.v)
    /\ v.sqrt_total_price.v * v.sqrt_total_price.v <= v.total_price.v

C4_DerivedFields ==
    \A i \in 1..Len(cleaned_data) : DerivedFieldsRight(cleaned_data[i].value)

C4_Witness ==
    \E i \in 1..Len(cleaned_data) :
        /\ cleaned_data[i].value.total_days.v = 3
        /\ cleaned_data[i].value.total_price.v = 6
        /\ cleaned_data[i].value.unit_cost.v = Fraction(6, 2)

\* C5, as stated: every record with price_per_day < 0 or units_rented < 0
\* makes check_value_set return False.  It is stated here on the records
\* that hold all five base entries, where no lookup can raise.
NegativePrice == value.price_per_day.present /\ value.price_per_day.v < 0
NegativeUnits == value.units_rented.present /\ value.units_rented.v < 0

C5_NegativeReturnsFalse ==
    (JustIterated /\ (\A f \in BaseFields : ~Absent(f))
                  /\ (NegativePrice \/ NegativeUnits)) => checked = "False"

\* C5, amended: a record with price_per_day < 0 makes check_value_set return
\* False; a record with units_rented < 0 is never accepted: check_value_set
\* returns False, unless a statement before the units_rented checks raises
\* (the date parse, or the lookup of an absent key), which ends the run.
C5_NegativeNeverAccepted ==
    JustIterated =>
        /\ NegativePrice => Skipped
        /\ NegativeUnits =>
              \/ Skipped
              \/ /\ checked = "raise"
                 /\ exc.at = "check_value_set"
                 /\ exc.exc \in {"ValueError", "KeyError"}
                 /\ pc \in {"exited", "crashed"}
        /\ (NegativeUnits /\ PassesEarlierChecks
              /\ Parses("rental_start") /\ Parses("rental_end")) => Skipped

C5_Witness ==
    /\ JustIterated
    /\ NegativeUnits
    /\ PassesEarlierChecks
    /\ Parses("rental_start") /\ Parses("rental_end")
    /\ strptime(value.rental_start.v).ord <= strptime(value.rental_end.v).ord
    /\ Skipped
    /\ Warning("invalid units_rented value") \in log

\* C6: every record whose parsed rental_start is after its parsed rental_end
\* makes check_value_set return False, is left out of the output, and the
\* loop goes on to the next record.
StartAfterEnd ==
    /\ Parses("rental_start") /\ Parses("rental_end")
    /\ strptime(value.rental_start.v).ord > strptime(value.rental_end.v).ord

C6_StartAfterEndSkipped == (JustIterated /\ StartAfterEnd) => Skipped

\* C7: when the input file is missing, load_rentals_file logs an error and
\* the run ends before any record is processed, with no output written.
C7_MissingFileLogged ==
    (pc # "load" /\ ~input_exists) =>
        /\ LoggedAt("error")
        /\ iterated = <<>>
        /\ ~output.written

\* C8: a file is written only when the cleaned mapping is not empty; when
\* check_value_set returned False on every record (or there is none),
\* calculate_additional_fields returns the empty mapping and save_to_json
\* warns and writes nothing.
NoneValid == \A i \in 1..Len(iterated) : iterated[i].checked = "False"

C8_EmptyWritesNothing ==
    /\ output.written => (cleaned_data # <<>> /\ output.content = cleaned_data)
    /\ (pc \in {"save", "done"} /\ NoneValid) => cleaned_data = <<>>
    /\ (pc = "done" /\ NoneValid) =>
          /\ ~output.written
          /\ Warning("Data is invalid. Skipping file writing") \in log
    /\ (pc = "done" /\ cleaned_data # <<>>) => output.written

C8_Witness ==
    pc = "done" /\ n_records = 2 /\ Len(iterated) = 2 /\ NoneValid /\ ~output.written

\* C9: the checks run in the fixed order and stop at the first failure: a
\* record with an unparseable date that also fails one of the five earlier
\* checks is skipped and the run continues; a record with an unparseable
\* date whose only other defect is in units_rented ends the run.
C9_OrderOfChecks ==
    JustIterated =>
        /\ ((Unparseable("rental_start") \/ Unparseable("rental_end"))
              /\ FailsEarlierCheck) => Skipped
        /\ ReachesBadDate => pc = "exited"

\* C10: for numeric inputs the arithmetic failures cannot happen: a record
\* on which check_value_set returned True has price_per_day > 0,
\* units_rented > 0 and total_days >= 0, so math.sqrt gets a value >= 0 and
\* the division a divisor that is not 0; the only error the except clause
\* of the loop ever handles is the date-parse error of check_value_set.
C10_NoArithmeticFailure ==
    /\ (JustIterated /\ checked = "True") =>
          /\ value.price_per_day.v > 0
          /\ value.units_rented.v > 0
          /\ value.total_days.present /\ value.total_days.v >= 0
          /\ value.total_price.present /\ value.total_price.v >= 0
          /\ value.unit_cost.present
          /\ pc = "continue"
    /\ exc.exc # "ZeroDivisionError"
    /\ exc.at \notin {"strptime", "math.sqrt", "unit_cost"}
    /\ pc = "exited" =>
          /\ exc = [exc |-> "ValueError", at |-> "check_value_set"]
          /\ \/ Error("time data does not match format") \in log
             \/ Error("day is out of range for month") \in log

C10_Witness ==
    /\ JustIterated
    /\ checked = "True"
    /\ value.total_price.v > 0
    /\ value.unit_cost.v = Fraction(6, 2)

====
